---- MODULE Spec2Model ----
(***************************************************************************)
(* Model of the power-consumption model registry:                          *)
(*   serve_model.py      download_latest_onnx_model, startup_event,        *)
(*                       health_check, predict                             *)
(*   trigger_pipeline.py trigger_pipeline                                  *)
(*                                                                         *)
(* Strings that the code inspects are sequences of tokens: an object name  *)
(* is its path split into components, separators and extensions, and a     *)
(* lastModified string is the sequence of its fields.  Python's None is    *)
(* the empty sequence <<>>.                                                *)
(***************************************************************************)
EXTENDS Integers, Sequences, FiniteSets, TLC

\* ------------------------------------------------------------------ bounds

\* Largest number of objects a stage listing holds.
MaxFiles == 2

\* ------------------------------------------------------------- stage data

None == <<>>

\* LIST prefixes every object name with the lower-cased stage name.
SNOWFLAKE_STAGE == "ml_models_stage"

OnnxSuffix == <<".onnx">>

NameRootA == <<SNOWFLAKE_STAGE, "/", "a", ".onnx">>
NameRootB == <<SNOWFLAKE_STAGE, "/", "b", ".onnx">>
NameSubA == <<SNOWFLAKE_STAGE, "/", "v2", "/", "a", ".onnx">>
NameText == <<SNOWFLAKE_STAGE, "/", "a", ".onnx", ".txt">>

ObjectNames == {NameRootA, NameRootB, NameSubA, NameText}

\* lastModified strings "Tue, 02 Jan 2024 00:00:00 GMT" as their fields, and
\* one string in another format.
StampJan1Noon == <<"Mon", 1, "Jan", 2024, <<12, 0, 0>>, "GMT">>
StampJan2 == <<"Tue", 2, "Jan", 2024, <<0, 0, 0>>, "GMT">>
StampFeb1 == <<"Thu", 1, "Feb", 2024, <<0, 0, 0>>, "GMT">>
StampIso == <<"2024-02-03T00:00:00Z">>

LastModifiedStrings == {StampJan1Noon, StampJan2, StampFeb1, StampIso}

\* md5 column: hexadecimal strings, as the sequence of their digit values.
Md5s == {<<0, 10>>, <<15, 1>>}

Sizes == {2048}

\* One row of LIST: (name, size, md5, last_modified).
StageRows == ObjectNames \X Sizes \X Md5s \X LastModifiedStrings

RECURSIVE SeqsUpTo(_, _)
SeqsUpTo(S, n) ==
    IF n = 0 THEN {<<>>}
    ELSE LET shorter == SeqsUpTo(S, n - 1)
         IN  shorter \cup {Append(s, x) : s \in {t \in shorter : Len(t) = n - 1}, x \in S}

\* A stage holds each object name once.
StageListings ==
    {l \in SeqsUpTo(StageRows, MaxFiles) :
        \A i, j \in 1..Len(l) : i # j => l[i][1] # l[j][1]}

\* ------------------------------------------------------- string functions

\* EndsWith with a slip: '.onnx' in file_name.
EndsWith_anywhere(s, suffix) ==
    \E i \in 1..Len(s) :
        i + Len(suffix) - 1 <= Len(s) /\ SubSeq(s, i, i + Len(suffix) - 1) = suffix

\* str.endswith
EndsWith(s, suffix) ==
    /\ Len(s) >= Len(suffix)
    /\ SubSeq(s, Len(s) - Len(suffix) + 1, Len(s)) = suffix

RECURSIVE LastSlash(_, _)
LastSlash(s, i) ==
    IF i = 0 THEN 0 ELSE IF s[i] = "/" THEN i ELSE LastSlash(s, i - 1)

\* os.path.basename
Basename(s) == SubSeq(s, LastSlash(s, Len(s)) + 1, Len(s))

\* Lexicographic order of Python tuples and strings of integers.
RECURSIVE SeqLess(_, _)
SeqLess(a, b) ==
    IF b = <<>> THEN FALSE
    ELSE IF a = <<>> THEN TRUE
    ELSE IF a[1] # b[1] THEN a[1] < b[1]
    ELSE SeqLess(Tail(a), Tail(b))

ValueError == <<"ValueError">>

DayNames == {"Mon", "Tue", "Wed", "Thu", "Fri", "Sat", "Sun"}
MonthNumber == [Jan |-> 1, Feb |-> 2]
ZoneNames == {"GMT", "UTC"}

\* datetime.strptime(s, '%a, %d %b %Y %H:%M:%S %Z'): a naive datetime
\* (year, month, day, hour, minute, second); the weekday and the zone are
\* matched and dropped.
Strptime(s) ==
    IF /\ Len(s) = 6
       /\ s[1] \in DayNames
       /\ s[3] \in DOMAIN MonthNumber
       /\ s[6] \in ZoneNames
    THEN <<s[4], MonthNumber[s[3]], s[2]>> \o s[5]
    ELSE ValueError

\* ---------------------------------------------------- artifact selection

\* Lines 52-57: the rows whose name ends with '.onnx', as (file_name,
\* last_modified_dt), in listing order.
RECURSIVE OnnxFiles(_)
OnnxFiles(rows) ==
    IF rows = <<>> THEN <<>>
    ELSE LET file_row == Head(rows)
         IN  IF EndsWith(file_row[1], OnnxSuffix)
             THEN <<<<file_row[1], Strptime(file_row[4])>>>> \o OnnxFiles(Tail(rows))
             ELSE OnnxFiles(Tail(rows))

\* Line 56 raises for a matching row whose last_modified does not parse.
ParseFails(rows) ==
    \E i \in 1..Len(rows) :
        EndsWith(rows[i][1], OnnxSuffix) /\ Strptime(rows[i][4]) = ValueError

\* InsertDesc with a slip: an element goes before the elements equal to it.
RECURSIVE InsertDesc_unstable(_, _, _)
InsertDesc_unstable(k, x, sorted) ==
    IF sorted = <<>> THEN <<x>>
    ELSE IF ~SeqLess(x[k], Head(sorted)[k]) THEN <<x>> \o sorted
    ELSE <<Head(sorted)>> \o InsertDesc_unstable(k, x, Tail(sorted))

\* Python's stable sort with reverse=True on column k (1-based): largest
\* key first, equal keys keep their order.
RECURSIVE InsertDesc(_, _, _)
InsertDesc(k, x, sorted) ==
    IF sorted = <<>> THEN <<x>>
    ELSE IF SeqLess(Head(sorted)[k], x[k]) THEN <<x>> \o sorted
    ELSE <<Head(sorted)>> \o InsertDesc(k, x, Tail(sorted))

RECURSIVE SortDesc(_, _)
SortDesc(k, rows) ==
    IF rows = <<>> THEN <<>>
    ELSE InsertDesc(k, rows[Len(rows)], SortDesc(k, SubSeq(rows, 1, Len(rows) - 1)))

\* LatestFile with a slip: the sort without reverse=True.
LatestFile_ascending(onnx_files) == SortDesc(2, onnx_files)[Len(onnx_files)][1]

\* Lines 63-64: onnx_files.sort(key=lambda x: x[1], reverse=True), then
\* onnx_files[0][0].
LatestFile(onnx_files) == SortDesc(2, onnx_files)[1][1]

\* ------------------------------------------------------------ local files

\* A file of the local model directory: its name, the stage object (or
\* earlier run) its bytes come from, and whether all bytes are there.
StaleOrigin == <<"earlier_run">>

LocalFile(path, origin, complete) ==
    [path |-> path, origin |-> origin, complete |-> complete]

\* Writing a file replaces the file of that name.
WriteFile(files, f) == {g \in files : g.path # f.path} \cup {f}

\* os.path.exists
PathExists(files, path) == \E g \in files : g.path = path

FileAt(files, path) == CHOOSE g \in files : g.path = path

\* What earlier runs left in ./models.
InitialLocalFiles ==
    {{}, {LocalFile(Basename(NameRootA), StaleOrigin, TRUE)}}

\* The stage objects GET @STAGE/<base> addresses: the path below the stage
\* root is the base name.
Addressed(rows, base) ==
    {i \in 1..Len(rows) : rows[i][1] = <<SNOWFLAKE_STAGE, "/">> \o base}

\* --------------------------------------------------------- feature vector

FeatureOrder ==
    <<"TEMPERATURE", "HUMIDITY", "WINDSPEED", "GENERALDIFFUSEFLOWS",
      "DIFFUSEFLOWS", "HOUR", "DAYOFWEEK", "QUARTER", "MONTH", "DAYOFYEAR",
      "POWER_LAG_1", "POWER_LAG_144", "POWER_ROLLING_MEAN_6",
      "POWER_ROLLING_MEAN_24">>

\* Request bodies that passed validation: every field present.  Within a
\* record all values differ, so that a permuted vector differs from the
\* right one; values stand for numbers a float32 holds exactly, but for one
\* record whose POWER_LAG_1 is 2^24 + 1.
FeatureRecords ==
    {[TEMPERATURE |-> 100 + k, HUMIDITY |-> 200 + k, WINDSPEED |-> 300 + k,
      GENERALDIFFUSEFLOWS |-> 400 + k, DIFFUSEFLOWS |-> 500 + k,
      HOUR |-> 600 + k, DAYOFWEEK |-> 700 + k, QUARTER |-> 800 + k,
      MONTH |-> 900 + k, DAYOFYEAR |-> 1000 + k, POWER_LAG_1 |-> 1100 + k,
      POWER_LAG_144 |-> 1200 + k, POWER_ROLLING_MEAN_6 |-> 1300 + k,
      POWER_ROLLING_MEAN_24 |-> 1400 + k] : k \in {0, 1}}
    \cup
    {[TEMPERATURE |-> 102, HUMIDITY |-> 202, WINDSPEED |-> 302,
      GENERALDIFFUSEFLOWS |-> 402, DIFFUSEFLOWS |-> 502,
      HOUR |-> 602, DAYOFWEEK |-> 702, QUARTER |-> 802,
      MONTH |-> 902, DAYOFYEAR |-> 1002, POWER_LAG_1 |-> 16777217,
      POWER_LAG_144 |-> 1202, POWER_ROLLING_MEAN_6 |-> 1302,
      POWER_ROLLING_MEAN_24 |-> 1402]}

\* ordered_features with a slip: the fields in alphabetical order.
ordered_features_alphabetical(features) ==
    <<features.DAYOFWEEK, features.DAYOFYEAR, features.DIFFUSEFLOWS,
      features.GENERALDIFFUSEFLOWS, features.HOUR, features.HUMIDITY,
      features.MONTH, features.POWER_LAG_1, features.POWER_LAG_144,
      features.POWER_ROLLING_MEAN_24, features.POWER_ROLLING_MEAN_6,
      features.QUARTER, features.TEMPERATURE, features.WINDSPEED>>

\* Lines 164-170.
ordered_features(features) ==
    <<features.TEMPERATURE, features.HUMIDITY, features.WINDSPEED,
      features.GENERALDIFFUSEFLOWS, features.DIFFUSEFLOWS, features.HOUR,
      features.DAYOFWEEK, features.QUARTER, features.MONTH, features.DAYOFYEAR,
      features.POWER_LAG_1, features.POWER_LAG_144,
      features.POWER_ROLLING_MEAN_6, features.POWER_ROLLING_MEAN_24>>

\* numpy float32 of a whole number: the nearest number with a 24-bit
\* significand, ties to the even one.
RECURSIVE Float32Ulp(_, _)
Float32Ulp(x, p) == IF x < 16777216 * p THEN p ELSE Float32Ulp(x, 2 * p)

Float32Abs(x) ==
    LET p == Float32Ulp(x, 1)
        q == x \div p
        r == x % p
    IN  IF 2 * r > p \/ (2 * r = p /\ q % 2 = 1) THEN (q + 1) * p ELSE q * p

Float32(x) == IF x < 0 THEN 0 - Float32Abs(0 - x) ELSE Float32Abs(x)

\* Line 173: np.array(ordered_features, dtype=np.float32).reshape(1, -1),
\* one row.
input_array(values) == <<[i \in 1..Len(values) |-> Float32(values[i])]>>

\* ------------------------------------------------------ concurrent requests

\* Requests the server handles at the same time, each in a thread of its
\* own (predict and health_check are plain def handlers).
MaxRequests == 2

\* Largest stage listing in the runs with concurrent requests.
MaxFilesConcurrent == 1

Requests == 1..MaxRequests

\* A request body with every field, and one with a field missing.
ValidBody == CHOOSE f \in FeatureRecords : f.POWER_LAG_1 = 16777217
InvalidBody == [TEMPERATURE |-> 100]

RequestBodies == {ValidBody, InvalidBody}

\* InputFeatures: all 14 fields are required.
Validates(body) == \A i \in 1..Len(FeatureOrder) : FeatureOrder[i] \in DOMAIN body

Idle == [at |-> "idle"]

\* A request inside predict, at line 159 or at line 176.
InPredict(line, body) == [at |-> line, body |-> body]

Responded(handler, result) == [at |-> "responded", handler |-> handler, result |-> result]

\* ------------------------------------------------------------------ state

VARIABLES
    stage,                  \* rows LIST @ML_MODELS_STAGE returns, in its order
    localFiles,             \* files of LOCAL_MODEL_DIR
    pc,                     \* serve_model: next step of startup_event
    conn,                   \* download_latest_onnx_model: conn
    all_files,              \* download_latest_onnx_model: all_files
    latest_file_full_path,  \* download_latest_onnx_model: latest_file_full_path
    transfer,               \* what the GET command did
    local_model_path,       \* startup_event: local_model_path
    ort_session,            \* global ort_session
    input_name,             \* global input_name
    startup_msg,            \* the message startup_event ended with
    commands,               \* commands the service executed on its cursor
    response,               \* what the last request handler returned
    inflight,               \* the requests being handled by worker threads
    tp_pc,                  \* trigger_pipeline: next step
    tp_conn,                \* trigger_pipeline: conn
    tp_idx,                 \* trigger_pipeline: idx of the step to execute
    tp_report,              \* trigger_pipeline: outcome printed for each step
    tp_checks,              \* trigger_pipeline: LIST commands of the stage check
    tp_latest,              \* trigger_pipeline: what the stage check printed
    tp_final                \* trigger_pipeline: final message printed

serveVars ==
    <<localFiles, pc, conn, all_files, latest_file_full_path, transfer,
      local_model_path, ort_session, input_name, startup_msg, commands, response,
      inflight>>

pipelineVars == <<tp_pc, tp_conn, tp_idx, tp_report, tp_checks, tp_latest, tp_final>>

vars == <<stage, serveVars, pipelineVars, inflight>>

NoResponse == [handler |-> "none"]

Init ==
    /\ stage \in StageListings
    /\ localFiles \in InitialLocalFiles
    /\ pc = "init"
    /\ conn = "None"
    /\ all_files = <<>>
    /\ latest_file_full_path = None
    /\ transfer = "none"
    /\ local_model_path = None
    /\ ort_session = None
    /\ input_name = None
    /\ startup_msg = "none"
    /\ commands = <<>>
    /\ response = NoResponse
    /\ inflight = [r \in Requests |-> Idle]
    /\ tp_pc = "connect"
    /\ tp_conn = "None"
    /\ tp_idx = 1
    /\ tp_report = <<>>
    /\ tp_checks = 0
    /\ tp_latest = <<"none">>
    /\ tp_final = "none"

\* ---------------------------------------- download_latest_onnx_model

\* Lines 81-83: the except clause; the function returns None once the
\* finally clause has run.
DownloadRaised ==
    /\ local_model_path' = None
    /\ pc' = "finally"

\* Line 135 calls the function; lines 33-45 connect.
Download_Connect ==
    /\ pc = "init"
    /\ \/ /\ conn' = "open"
          /\ pc' = "list"
          /\ UNCHANGED local_model_path
       \/ /\ DownloadRaised
          /\ UNCHANGED conn
    /\ UNCHANGED <<stage, localFiles, all_files, latest_file_full_path, transfer,
                   ort_session, input_name, startup_msg, commands, response,
                   pipelineVars, inflight>>

\* Lines 47-50: LIST and fetchall.
Download_List ==
    /\ pc = "list"
    /\ commands' = Append(commands, <<"LIST">>)
    /\ \/ /\ all_files' = stage
          /\ pc' = "select"
          /\ UNCHANGED local_model_path
       \/ /\ DownloadRaised
          /\ UNCHANGED all_files
    /\ UNCHANGED <<stage, localFiles, conn, latest_file_full_path, transfer,
                   ort_session, input_name, startup_msg, response, pipelineVars, inflight>>

\* Lines 52-65: filter, parse, sort, take the first.
Download_Select ==
    /\ pc = "select"
    /\ IF ParseFails(all_files)
       THEN /\ DownloadRaised
            /\ UNCHANGED latest_file_full_path
       ELSE IF OnnxFiles(all_files) = <<>>
       THEN /\ local_model_path' = None
            /\ pc' = "finally"
            /\ UNCHANGED latest_file_full_path
       ELSE /\ latest_file_full_path' = LatestFile(OnnxFiles(all_files))
            /\ pc' = "get"
            /\ UNCHANGED local_model_path
    /\ UNCHANGED <<stage, localFiles, conn, all_files, transfer, ort_session,
                   input_name, startup_msg, commands, response, pipelineVars, inflight>>

\* Lines 65-79: GET @STAGE/<base name> into the model directory, then
\* return the path of that base name in the directory.  The result of the
\* command is not read.
Download_Get ==
    /\ pc = "get"
    /\ LET latest_file_name == Basename(latest_file_full_path)
           found == Addressed(stage, latest_file_name)
       IN  /\ commands' = Append(commands, <<"GET", latest_file_name>>)
           /\ \/ \E i \in found :
                    /\ transfer' = "complete"
                    /\ localFiles' =
                          WriteFile(localFiles, LocalFile(latest_file_name, stage[i][1], TRUE))
                    /\ local_model_path' = latest_file_name
                    /\ pc' = "finally"
              \/ /\ found = {}
                 /\ transfer' = "nothing"
                 /\ local_model_path' = latest_file_name
                 /\ pc' = "finally"
                 /\ UNCHANGED localFiles
              \/ /\ transfer' = "failed"
                 /\ DownloadRaised
                 /\ UNCHANGED localFiles
              \/ \E i \in found :
                    /\ transfer' = "interrupted"
                    /\ localFiles' =
                          WriteFile(localFiles, LocalFile(latest_file_name, stage[i][1], FALSE))
                    /\ DownloadRaised
    /\ UNCHANGED <<stage, conn, all_files, latest_file_full_path, ort_session,
                   input_name, startup_msg, response, pipelineVars, inflight>>

\* Download_Finally with a slip: the connection is closed at the end of the
\* try block, so only when no exception was raised.
Download_Finally_on_success ==
    /\ pc = "finally"
    /\ conn' = IF conn = "open" /\ transfer # "failed" THEN "closed" ELSE conn
    /\ pc' = "exists"
    /\ UNCHANGED <<stage, localFiles, all_files, latest_file_full_path, transfer,
                   local_model_path, ort_session, input_name, startup_msg,
                   commands, response, pipelineVars, inflight>>

\* Lines 85-88: the finally clause, then the return.
Download_Finally ==
    /\ pc = "finally"
    /\ conn' = IF conn = "open" THEN "closed" ELSE conn
    /\ pc' = "exists"
    /\ UNCHANGED <<stage, localFiles, all_files, latest_file_full_path, transfer,
                   local_model_path, ort_session, input_name, startup_msg,
                   commands, response, pipelineVars, inflight>>

\* ------------------------------------------------------------ startup_event

\* Startup_CheckPath with a slip: any file in the model directory will do.
Startup_CheckPath_any_file ==
    /\ pc = "exists"
    /\ IF localFiles # {}
       THEN /\ pc' = "session"
            /\ UNCHANGED startup_msg
       ELSE /\ pc' = "done"
            /\ startup_msg' = "fatal_download"
    /\ UNCHANGED <<stage, localFiles, conn, all_files, latest_file_full_path,
                   transfer, local_model_path, ort_session, input_name, commands,
                   response, pipelineVars, inflight>>

\* Line 137, and line 146 when the test fails.
Startup_CheckPath ==
    /\ pc = "exists"
    /\ IF local_model_path # None /\ PathExists(localFiles, local_model_path)
       THEN /\ pc' = "session"
            /\ UNCHANGED startup_msg
       ELSE /\ pc' = "done"
            /\ startup_msg' = "fatal_download"
    /\ UNCHANGED <<stage, localFiles, conn, all_files, latest_file_full_path,
                   transfer, local_model_path, ort_session, input_name, commands,
                   response, pipelineVars, inflight>>

\* Line 140, and lines 143-144 when it raises.  A truncated file does not
\* load; a whole one loads or is rejected.
Startup_CreateSession ==
    /\ pc = "session"
    /\ LET file == FileAt(localFiles, local_model_path)
       IN  \/ /\ file.complete
              /\ ort_session' = <<file.origin>>
              /\ pc' = "input_name"
              /\ UNCHANGED startup_msg
           \/ /\ pc' = "done"
              /\ startup_msg' = "fatal_load"
              /\ UNCHANGED ort_session
    /\ UNCHANGED <<stage, localFiles, conn, all_files, latest_file_full_path,
                   transfer, local_model_path, input_name, commands, response,
                   pipelineVars, inflight>>

\* Lines 141-142, and lines 143-144 when get_inputs()[0] raises (a graph
\* that declares no input).
Startup_GetInputName ==
    /\ pc = "input_name"
    /\ \/ /\ input_name' = <<"float_input">>
          /\ startup_msg' = "ready"
       \/ /\ startup_msg' = "fatal_load"
          /\ UNCHANGED input_name
    /\ pc' = "done"
    /\ UNCHANGED <<stage, localFiles, conn, all_files, latest_file_full_path,
                   transfer, local_model_path, ort_session, commands, response,
                   pipelineVars, inflight>>

\* --------------------------------------------------------- request handlers

\* Requests are handled before startup_event is called (a direct call) and
\* after it has returned; startup_event runs to its end without yielding.
Serving == pc \in {"init", "done"}

\* health_check with a slip: the stage is listed on every call.
health_check_listing ==
    /\ Serving
    /\ commands' = <<<<"LIST">>>>
    /\ response' = [handler |-> "health_check", status |-> "ok",
                    model_status |-> IF ort_session # None THEN "loaded"
                                     ELSE "not loaded"]
    /\ UNCHANGED <<stage, localFiles, pc, conn, all_files, latest_file_full_path,
                   transfer, local_model_path, ort_session, input_name,
                   startup_msg, pipelineVars, inflight>>

\* Lines 148-152.
health_check ==
    /\ Serving
    /\ response' = [handler |-> "health_check", status |-> "ok",
                    model_status |-> IF ort_session # None THEN "loaded"
                                     ELSE "not loaded"]
    /\ UNCHANGED <<stage, localFiles, pc, conn, all_files, latest_file_full_path,
                   transfer, local_model_path, ort_session, input_name,
                   startup_msg, commands, pipelineVars, inflight>>

PredictResponse(result, ran, feed_name, feed) ==
    [handler |-> "predict", result |-> result, ran_inference |-> ran,
     feed_name |-> feed_name, feed |-> feed]

\* predict with a slip: the session is dropped when run raises.
predict_dropping_session ==
    /\ Serving
    /\ \E features \in FeatureRecords :
          IF ort_session = None
          THEN /\ response' = PredictResponse("model_not_loaded", FALSE, None, <<>>)
               /\ UNCHANGED ort_session
          ELSE \E result \in {"prediction", "raised"} :
                  /\ input_name = None => result = "raised"
                  /\ response' = PredictResponse(result, TRUE, input_name,
                                                 input_array(ordered_features(features)))
                  /\ ort_session' = IF result = "raised" THEN None ELSE ort_session
    /\ UNCHANGED <<stage, localFiles, pc, conn, all_files, latest_file_full_path,
                   transfer, local_model_path, input_name, startup_msg, commands,
                   pipelineVars, inflight>>

\* Lines 154-181.  ort_session.run is opaque: it returns a value or raises,
\* and it raises when the feed is keyed by None.
predict ==
    /\ Serving
    /\ \E features \in FeatureRecords :
          IF ort_session = None
          THEN response' = PredictResponse("model_not_loaded", FALSE, None, <<>>)
          ELSE \E result \in {"prediction", "raised"} :
                  /\ input_name = None => result = "raised"
                  /\ response' = PredictResponse(result, TRUE, input_name,
                                                 input_array(ordered_features(features)))
    /\ UNCHANGED <<stage, localFiles, pc, conn, all_files, latest_file_full_path,
                   transfer, local_model_path, ort_session, input_name,
                   startup_msg, commands, pipelineVars, inflight>>

\* ------------------------------------------- request handlers, in threads

\* The server takes requests once startup_event has returned.
Accepting == pc = "done"

\* POST /predict arrives: the body is validated against InputFeatures
\* (line 155); a body that fails is answered without calling predict.
Request_Predict(r) ==
    /\ Accepting
    /\ inflight[r] = Idle
    /\ \E body \in RequestBodies :
          inflight' = [inflight EXCEPT ![r] =
                          IF Validates(body) THEN InPredict("line159", body)
                          ELSE Responded("predict", "validation_error")]
    /\ UNCHANGED <<stage, localFiles, pc, conn, all_files, latest_file_full_path,
                   transfer, local_model_path, ort_session, input_name,
                   startup_msg, commands, response, pipelineVars>>

\* Lines 159-160.
Predict_CheckSession(r) ==
    /\ inflight[r].at = "line159"
    /\ inflight' = [inflight EXCEPT ![r] =
                      IF ort_session = None
                      THEN Responded("predict", "model_not_loaded")
                      ELSE InPredict("line176", inflight[r].body)]
    /\ UNCHANGED <<stage, localFiles, pc, conn, all_files, latest_file_full_path,
                   transfer, local_model_path, ort_session, input_name,
                   startup_msg, commands, response, pipelineVars>>

\* Predict_Run with a slip: the session is dropped when run raises.
Predict_Run_dropping_session(r) ==
    /\ inflight[r].at = "line176"
    /\ \E result \in {"prediction", "raised"} :
          /\ input_name = None => result = "raised"
          /\ inflight' = [inflight EXCEPT ![r] = Responded("predict", result)]
          /\ ort_session' = IF result = "raised" THEN None ELSE ort_session
    /\ UNCHANGED <<stage, localFiles, pc, conn, all_files, latest_file_full_path,
                   transfer, local_model_path, input_name, startup_msg, commands,
                   response, pipelineVars>>

\* Lines 162-181: the globals are read again for the call of run.
Predict_Run(r) ==
    /\ inflight[r].at = "line176"
    /\ \E result \in {"prediction", "raised"} :
          /\ input_name = None => result = "raised"
          /\ inflight' = [inflight EXCEPT ![r] = Responded("predict", result)]
    /\ UNCHANGED <<stage, localFiles, pc, conn, all_files, latest_file_full_path,
                   transfer, local_model_path, ort_session, input_name,
                   startup_msg, commands, response, pipelineVars>>

\* GET /: lines 148-152, one read of ort_session.
Request_Health(r) ==
    /\ Accepting
    /\ inflight[r] = Idle
    /\ inflight' = [inflight EXCEPT ![r] =
                      Responded("health_check",
                                IF ort_session # None THEN "loaded" ELSE "not loaded")]
    /\ UNCHANGED <<stage, localFiles, pc, conn, all_files, latest_file_full_path,
                   transfer, local_model_path, ort_session, input_name,
                   startup_msg, commands, response, pipelineVars>>

\* The response is sent and the thread is free for the next request.
Request_Done(r) ==
    /\ inflight[r].at = "responded"
    /\ inflight' = [inflight EXCEPT ![r] = Idle]
    /\ UNCHANGED <<stage, localFiles, pc, conn, all_files, latest_file_full_path,
                   transfer, local_model_path, ort_session, input_name,
                   startup_msg, commands, response, pipelineVars>>

\* --------------------------------------------------------- trigger_pipeline

PIPELINE_STEPS ==
    <<<<"CALL ", "POWER_CONSUMPTION_DATA_INGESTION", "(", ");">>,
      <<"CALL ", "POWER_CONSUMPTION_FEATURE_ENGINEERING", "(", ");">>,
      <<"CALL ", "POWER_CONSUMPTION_MODEL_TRAINING", "(", ");">>,
      <<"CALL ", "POWER_CONSUMPTION_MODEL_EVALUATION", "(", ");">>>>

RECURSIVE FirstParen(_, _)
FirstParen(s, i) ==
    IF i > Len(s) THEN i ELSE IF s[i] = "(" THEN i ELSE FirstParen(s, i + 1)

\* Line 43: step.split("(")[0].replace("CALL ", "").replace("();", "")
step_name(step) ==
    SelectSeq(SubSeq(step, 1, FirstParen(step, 1) - 1), LAMBDA t : t # "CALL ")

\* Lines 30-39.  A failed connect is not caught: it leaves the function.
Pipeline_Connect ==
    /\ tp_pc = "connect"
    /\ \/ /\ tp_conn' = "open"
          /\ tp_pc' = "steps"
       \/ /\ tp_pc' = "raised"
          /\ UNCHANGED tp_conn
    /\ UNCHANGED <<stage, serveVars, tp_idx, tp_report, tp_checks, tp_latest, tp_final>>

\* Pipeline_Step with a slip: continue in place of break.
Pipeline_Step_continue ==
    /\ tp_pc = "steps"
    /\ LET name == step_name(PIPELINE_STEPS[tp_idx])
       IN  \E outcome \in {"ok", "error"} :
              /\ tp_report' = Append(tp_report, <<tp_idx, name, outcome>>)
              /\ tp_idx' = tp_idx + 1
              /\ tp_pc' = IF tp_idx = Len(PIPELINE_STEPS) THEN "check" ELSE "steps"
    /\ UNCHANGED <<stage, serveVars, tp_conn, tp_checks, tp_latest, tp_final>>

\* Lines 42-52: one turn of the loop.
Pipeline_Step ==
    /\ tp_pc = "steps"
    /\ LET name == step_name(PIPELINE_STEPS[tp_idx])
       IN  \/ /\ tp_report' = Append(tp_report, <<tp_idx, name, "ok">>)
              /\ tp_idx' = tp_idx + 1
              /\ tp_pc' = IF tp_idx = Len(PIPELINE_STEPS) THEN "check" ELSE "steps"
           \/ /\ tp_report' = Append(tp_report, <<tp_idx, name, "error">>)
              /\ tp_pc' = "check"
              /\ UNCHANGED tp_idx
    /\ UNCHANGED <<stage, serveVars, tp_conn, tp_checks, tp_latest, tp_final>>

\* Line 66: sorted(stage_files, key=lambda x: x[2], reverse=True)[0]
latest_file(stage_files) == SortDesc(3, stage_files)[1]

\* Pipeline_Check with a slip: the LIST outside the try.
Pipeline_Check_uncaught ==
    /\ tp_pc = "check"
    /\ tp_checks' = tp_checks + 1
    /\ \/ /\ tp_latest' = IF stage = <<>> THEN <<"no_models">>
                          ELSE <<"latest", latest_file(stage)[1], latest_file(stage)[3],
                                 latest_file(stage)[2]>>
          /\ tp_pc' = "close"
       \/ /\ tp_pc' = "raised"
          /\ UNCHANGED tp_latest
    /\ UNCHANGED <<stage, serveVars, tp_conn, tp_idx, tp_report, tp_final>>

\* Lines 55-72: the stage check.  It prints the name, x[2] as "Last
\* modified" and the size of the row it picked.
Pipeline_Check ==
    /\ tp_pc = "check"
    /\ tp_checks' = tp_checks + 1
    /\ \/ tp_latest' = IF stage = <<>> THEN <<"no_models">>
                       ELSE <<"latest", latest_file(stage)[1], latest_file(stage)[3],
                              latest_file(stage)[2]>>
       \/ tp_latest' = <<"warning">>
    /\ tp_pc' = "close"
    /\ UNCHANGED <<stage, serveVars, tp_conn, tp_idx, tp_report, tp_final>>

\* Lines 74-78.
Pipeline_Close ==
    /\ tp_pc = "close"
    /\ tp_conn' = "closed"
    /\ tp_final' = "ML pipeline completed successfully!"
    /\ tp_pc' = "done"
    /\ UNCHANGED <<stage, serveVars, tp_idx, tp_report, tp_checks, tp_latest>>

Next ==
    \/ Download_Connect
    \/ Download_List
    \/ Download_Select
    \/ Download_Get
    \/ Download_Finally
    \/ Startup_CheckPath
    \/ Startup_CreateSession
    \/ Startup_GetInputName
    \/ health_check
    \/ predict

Spec == Init /\ [][Next]_vars

NextPipeline ==
    \/ Pipeline_Connect
    \/ Pipeline_Step
    \/ Pipeline_Check
    \/ Pipeline_Close

SpecPipeline == Init /\ [][NextPipeline]_vars

InitConcurrent == Init /\ Len(stage) <= MaxFilesConcurrent

NextConcurrent ==
    \/ Download_Connect
    \/ Download_List
    \/ Download_Select
    \/ Download_Get
    \/ Download_Finally
    \/ Startup_CheckPath
    \/ Startup_CreateSession
    \/ Startup_GetInputName
    \/ \E r \in Requests : Request_Predict(r)
    \/ \E r \in Requests : Predict_CheckSession(r)
    \/ \E r \in Requests : Predict_Run(r)
    \/ \E r \in Requests : Request_Health(r)
    \/ \E r \in Requests : Request_Done(r)

SpecConcurrent == InitConcurrent /\ [][NextConcurrent]_vars

\* The two programs are separate processes that share nothing but the
\* stage, which neither writes: a run of either one.
NextEither ==
    \/ tp_pc = "connect" /\ Next
    \/ pc = "init" /\ NextPipeline

SpecEither == Init /\ [][NextEither]_vars

\* ----------------------------------------------------------------- claims

\* Model readiness as the service's state machine names it: Ready is a
\* startup that ended with the success message of line 142, Failed one
\* that ended with a FATAL message.
Readiness ==
    IF pc = "init" THEN "Unloaded"
    ELSE IF pc # "done" THEN "Loading"
    ELSE IF startup_msg = "ready" THEN "Ready"
    ELSE "Failed"

\* C1: predict, called while the model is not Ready (before startup, or
\* after a startup that ended in Failed), returns the 'model not loaded'
\* error, does not invoke the session's run and does not raise.
C1_PredictRefusesWhenNotReady ==
    (response.handler = "predict" /\ Readiness \in {"Unloaded", "Failed"}) =>
        /\ response.result = "model_not_loaded"
        /\ ~response.ran_inference

\* C2: health_check reports 'loaded' only after a load (session built and
\* first input name recorded) succeeded, and 'not loaded' when the load
\* failed.
C2_LoadedOnlyAfterSuccessfulLoad ==
    response.handler = "health_check" =>
        /\ response.model_status = "loaded" =>
              (startup_msg = "ready" /\ ort_session # None /\ input_name # None)
        /\ (pc = "done" /\ startup_msg = "fatal_load") =>
              response.model_status = "not loaded"

\* C3: after any failure during startup, startup_event has returned, the
\* model is not loaded, and health_check answers 'ok'.
C3_StartupFailureLeavesModelUnloaded ==
    (pc = "done" /\ startup_msg # "ready") =>
        /\ ort_session = None
        /\ response.handler = "health_check" =>
              (response.status = "ok" /\ response.model_status = "not loaded")

\* C4: readiness changes only during the one startup sequence, along
\* Unloaded -> Loading -> Ready or Unloaded -> Loading -> Failed; once
\* startup has ended no request changes the model state, and nothing leads
\* back to Unloaded.
ReadinessEdges ==
    {<<"Unloaded", "Loading">>, <<"Loading", "Ready">>, <<"Loading", "Failed">>}

C4_ReadinessChangesOnlyAtStartup ==
    [][/\ pc = "done" =>
            /\ pc' = "done"
            /\ ort_session' = ort_session
            /\ input_name' = input_name
            /\ startup_msg' = startup_msg
       /\ pc' = "init" =>
            /\ pc = "init"
            /\ ort_session' = ort_session
            /\ input_name' = input_name
       /\ Readiness' # Readiness => <<Readiness, Readiness'>> \in ReadinessEdges]_vars

C4_Witness ==
    /\ Readiness = "Ready"
    /\ response.handler = "predict"
    /\ response.result = "prediction"

\* C5: the pipeline steps are invoked in their declared order and none is
\* invoked after a failure: the k-th invocation is of step k, and every
\* invocation but the last one succeeded.
C5_StepsInOrderStopAtFirstFailure ==
    \A k \in 1..Len(tp_report) :
        /\ k <= Len(PIPELINE_STEPS)
        /\ tp_report[k][1] = k
        /\ tp_report[k][2] = <<PIPELINE_STEPS[k][2]>>
        /\ k < Len(tp_report) => tp_report[k][3] = "ok"

C5_Witness ==
    /\ tp_pc = "done"
    /\ Len(tp_report) = 2
    /\ tp_report[1][3] = "ok"
    /\ tp_report[2][3] = "error"

\* Names and time stamps as the claims read them: a model object is one
\* whose name ends in .onnx, and a well-formed stamp denotes an instant
\* (seconds since 2000, months of 31 days).
IsModelName(name) == name # <<>> /\ name[Len(name)] = ".onnx"

WellFormedStamp(st) == Len(st) = 6

DaysBeforeMonth == [Jan |-> 0, Feb |-> 31]

Instant(st) ==
    ((((st[4] - 2000) * 372 + DaysBeforeMonth[st[3]] + st[2]) * 24 + st[5][1]) * 60
        + st[5][2]) * 60 + st[5][3]

ModelRows(rows) == {i \in 1..Len(rows) : IsModelName(rows[i][1])}

IsLatestModel(rows, name) ==
    \E i \in ModelRows(rows) :
        /\ rows[i][1] = name
        /\ WellFormedStamp(rows[i][4])
        /\ \A j \in ModelRows(rows) :
              WellFormedStamp(rows[j][4]) /\ Instant(rows[j][4]) <= Instant(rows[i][4])

\* C6: when the listing holds a .onnx object, the object selected is a
\* .onnx object of the listing whose lastModified is the greatest among the
\* .onnx objects; and one is selected whenever the listing holds a .onnx
\* object and the stamps of its .onnx objects are well formed.
C6_SelectsLatestModel ==
    /\ latest_file_full_path # None => IsLatestModel(all_files, latest_file_full_path)
    /\ ( /\ pc \notin {"init", "list", "select"}
         /\ ModelRows(all_files) # {}
         /\ \A j \in ModelRows(all_files) : WellFormedStamp(all_files[j][4]) )
       => latest_file_full_path # None

C6_Witness ==
    /\ latest_file_full_path # None
    /\ \E i, j \in 1..Len(all_files) :
          /\ all_files[i][1] = latest_file_full_path
          /\ ~IsModelName(all_files[j][1])
          /\ WellFormedStamp(all_files[j][4])
          /\ Instant(all_files[j][4]) > Instant(all_files[i][4])

\* C7: on a stage listing that is empty or holds no .onnx name, selection
\* yields nothing: the function returns None, no object is selected, no GET
\* is issued and no file is written.
C7_NoModelMeansNotFound ==
    ModelRows(stage) = {} =>
        /\ latest_file_full_path = None
        /\ local_model_path = None
        /\ transfer = "none"
        /\ \A i \in 1..Len(commands) : commands[i][1] # "GET"
        /\ localFiles \in InitialLocalFiles
        /\ pc \notin {"get", "session", "input_name"}

C7_Witness ==
    /\ ModelRows(stage) = {}
    /\ Len(stage) >= 1
    /\ all_files = stage
    /\ pc = "done"
    /\ startup_msg = "fatal_download"

\* C8: the stage check runs exactly once, after the step sequence has
\* ended; its failure is a warning, after which the function goes on to its
\* end, and the check leaves the outcome recorded for the steps as it was.
C8_StageCheckOnceAndHarmless ==
    /\ [](tp_checks = IF tp_pc \in {"close", "done"} THEN 1 ELSE 0)
    /\ [][tp_pc = "check" => (tp_pc' = "close" /\ tp_report' = tp_report)]_vars

C8_Witness ==
    /\ tp_pc = "done"
    /\ tp_latest = <<"warning">>
    /\ tp_report # <<>>
    /\ tp_report[Len(tp_report)][3] = "error"

\* C9: on a non-empty listing the stage check reports the .onnx object with
\* the greatest lastModified, if the listing holds one.
C9_CheckReportsLatestModel ==
    ( /\ tp_latest[1] = "latest"
      /\ ModelRows(stage) # {}
      /\ \A i \in 1..Len(stage) : WellFormedStamp(stage[i][4]) )
    => IsLatestModel(stage, tp_latest[2])

\* C10: the function returns a path only when the whole content of the
\* selected object is at that path; a failed or interrupted transfer
\* returns no path; and the file startup loads is the complete file of the
\* selected object, fetched by this run.
Returned == pc \in {"exists", "session", "input_name", "done"}

C10_ReturnedPathHoldsSelectedObject ==
    /\ (Returned /\ local_model_path # None) =>
          \E f \in localFiles :
              /\ f.path = local_model_path
              /\ f.complete
              /\ f.origin = latest_file_full_path
    /\ (Returned /\ transfer \in {"failed", "interrupted"}) => local_model_path = None
    /\ pc = "session" =>
          /\ transfer = "complete"
          /\ FileAt(localFiles, local_model_path).origin = latest_file_full_path

\* C11: a request makes no remote call: a step that handles a request,
\* before startup or after it, opens or closes no connection, issues no
\* command and writes no file; once startup has ended nothing does.
C11_RequestsMakeNoRemoteCall ==
    [][(pc' = pc /\ pc \in {"init", "done"}) =>
          /\ conn' = conn
          /\ commands' = commands
          /\ transfer' = transfer
          /\ localFiles' = localFiles
          /\ all_files' = all_files]_vars

C11_Witness ==
    /\ pc = "done"
    /\ startup_msg = "ready"
    /\ response.handler = "predict"
    /\ response.ran_inference
    /\ commands = <<<<"LIST">>, <<"GET", Basename(latest_file_full_path)>>>>

\* The vector of a record in the declared order of its fields.
DeclaredVector(f) == [i \in 1..Len(FeatureOrder) |-> f[FeatureOrder[i]]]

\* C13 as stated: the vector passed to inference has 14 elements, the i-th
\* of them the i-th field of the record in the declared order.
C13_VectorIsTheRecordInOrder ==
    (response.handler = "predict" /\ response.ran_inference) =>
        /\ Len(response.feed) = 1
        /\ Len(response.feed[1]) = 14
        /\ \E f \in FeatureRecords : response.feed[1] = DeclaredVector(f)

\* C13 as amended: the i-th element is the float32 value of the i-th field
\* of the record in the declared order.
C13_VectorIsTheRecordInOrderAsFloat32 ==
    (response.handler = "predict" /\ response.ran_inference) =>
        /\ Len(response.feed) = 1
        /\ Len(response.feed[1]) = 14
        /\ \E f \in FeatureRecords :
              \A i \in 1..14 : response.feed[1][i] = Float32(DeclaredVector(f)[i])

C13_Witness ==
    /\ response.handler = "predict"
    /\ response.result = "prediction"
    /\ response.feed[1][11] = 16777216

\* C14: the GET command addresses the selected object, whatever directory
\* components its name has, and the path returned is the base name of the
\* selected object in the model directory.
C14_GetFetchesSelectedObject ==
    /\ \A k \in 1..Len(commands) :
          commands[k][1] = "GET" =>
              Addressed(stage, commands[k][2]) =
                  {i \in 1..Len(stage) : stage[i][1] = latest_file_full_path}
    /\ (Returned /\ local_model_path # None) =>
          local_model_path = Basename(latest_file_full_path)

\* The .onnx rows of a listing that carry its greatest lastModified.
NewestModelRows(rows) ==
    {i \in ModelRows(rows) :
        \A j \in ModelRows(rows) : Instant(rows[j][4]) <= Instant(rows[i][4])}

\* C15: selection under ties is decided by the listing alone: of several
\* .onnx objects that share the greatest lastModified, the one that comes
\* first in the listing is selected.
C15_TieGoesToFirstListed ==
    latest_file_full_path # None =>
        \E i \in NewestModelRows(all_files) :
            /\ all_files[i][1] = latest_file_full_path
            /\ \A j \in NewestModelRows(all_files) : i <= j

C15_Witness ==
    /\ latest_file_full_path # None
    /\ Cardinality(NewestModelRows(all_files)) >= 2

\* The Model Loader has been invoked, or is about to be.
LoadAttempted ==
    \/ pc \in {"session", "input_name"}
    \/ startup_msg \in {"ready", "fatal_load"}
    \/ ort_session # None

\* C16: the load is attempted only after the download has returned a path
\* at which a file exists, which takes a connection, a listing, a selection
\* and a GET that did not raise; when the download returned no path,
\* startup ends Failed without a load attempt.
C16_LoadOnlyAfterDownload ==
    /\ LoadAttempted =>
          /\ local_model_path # None
          /\ PathExists(localFiles, local_model_path)
          /\ conn = "closed"
          /\ all_files = stage
          /\ latest_file_full_path # None
          /\ transfer \in {"complete", "nothing"}
    /\ (Returned /\ local_model_path = None) =>
          /\ ~LoadAttempted
          /\ pc = "done" => startup_msg = "fatal_download"

C16_Witness ==
    /\ pc = "done"
    /\ transfer = "interrupted"
    /\ PathExists(localFiles, Basename(latest_file_full_path))
    /\ startup_msg = "fatal_download"

\* C17: whenever requests are served, ort_session is set only if input_name
\* is set too, and predict never calls run with an unset input name.
C17_SessionImpliesInputName ==
    /\ (Serving /\ ort_session # None) => input_name # None
    /\ (response.handler = "predict" /\ response.ran_inference) =>
          response.feed_name # None

\* C18: the final message 'ML pipeline completed successfully!' is printed
\* only by a run in which every step was executed and succeeded.
C18_SuccessOnlyWhenAllStepsSucceeded ==
    tp_final = "ML pipeline completed successfully!" =>
        /\ Len(tp_report) = Len(PIPELINE_STEPS)
        /\ \A k \in 1..Len(tp_report) : tp_report[k][3] = "ok"

\* C19: a connection that was opened is closed when the function that
\* opened it has returned: download_latest_onnx_model on success, on
\* NotFound and after any exception; trigger_pipeline after a failed step
\* and after a failed stage check.  A connection is "None" only when the
\* connect itself failed.
C19_OpenedConnectionsAreClosed ==
    /\ Returned => conn = IF commands = <<>> THEN "None" ELSE "closed"
    /\ tp_pc = "done" => tp_conn = "closed"
    /\ tp_pc = "raised" => tp_conn = "None"

C19_Witness ==
    /\ Returned
    /\ transfer = "failed"
    /\ conn = "closed"

\* C12: under every interleaving of concurrent predict and health_check
\* requests, answered with a prediction, an exception of run, a validation
\* error or the unavailable error, ort_session and input_name keep the
\* values they had when startup ended.
C12_ModelStateNeverMutatedByRequests ==
    [][pc = "done" => (ort_session' = ort_session /\ input_name' = input_name)]_vars

C12_Witness ==
    /\ ort_session # None
    /\ input_name # None
    /\ inflight[1].at = "line176"
    /\ inflight[2] = Responded("predict", "validation_error")

====
